---------------------------- MODULE Spec2Model ----------------------------
(***************************************************************************)
(* Global keyboard shortcuts of the overlay application: the shortcut      *)
(* parser, the binding resolution and the register / unregister / update / *)
(* reset commands of src-tauri/src/commands/shortcuts.rs, the hotkeys      *)
(* registered at start-up by src-tauri/src/main.rs, and the OS global      *)
(* shortcut manager they talk to.                                          *)
(*                                                                         *)
(* A Rust String is a sequence of characters; a character is a one-letter  *)
(* TLA+ string, and the non-ASCII key glyphs are named by their code point *)
(* ("U2318" is the command glyph).  Option<T> is a tagged record.          *)
(***************************************************************************)
EXTENDS Integers, Sequences, FiniteSets, TLC

(***************************************************************************)
(* Bounds of the model.                                                    *)
(***************************************************************************)
\* number of catalog entries held by the store
NumKeys == 2
\* number of command invocations in one behaviour
MaxCalls == 2

(***************************************************************************)
(* Characters and strings.                                                 *)
(***************************************************************************)
LowerAlpha ==
    <<"a","b","c","d","e","f","g","h","i","j","k","l","m",
      "n","o","p","q","r","s","t","u","v","w","x","y","z", "U00E9">>

UpperAlpha ==
    <<"A","B","C","D","E","F","G","H","I","J","K","L","M",
      "N","O","P","Q","R","S","T","U","V","W","X","Y","Z", "U00C9">>

\* the key glyphs of the synonym table
GlyphCmd   == "U2318"
GlyphOpt   == "U2325"
GlyphUp    == "U2191"
GlyphDown  == "U2193"
GlyphLeft  == "U2190"
GlyphRight == "U2192"
GlyphEnter == "U21B5"

IndexOf(ch, alpha) ==
    IF \E i \in 1..Len(alpha) : alpha[i] = ch
    THEN CHOOSE i \in 1..Len(alpha) : alpha[i] = ch
    ELSE 0

\* char::to_lowercase / char::to_uppercase on the characters of the model
\* the letters that have another case, with their other case
ToLower ==
    [ch \in {UpperAlpha[i] : i \in 1..Len(UpperAlpha)} |->
        LowerAlpha[IndexOf(ch, UpperAlpha)]]

ToUpper ==
    [ch \in {LowerAlpha[i] : i \in 1..Len(LowerAlpha)} |->
        UpperAlpha[IndexOf(ch, LowerAlpha)]]

LowerChar(ch) == IF ch \in DOMAIN ToLower THEN ToLower[ch] ELSE ch

UpperChar(ch) == IF ch \in DOMAIN ToUpper THEN ToUpper[ch] ELSE ch

to_lowercase(s) == [i \in 1..Len(s) |-> LowerChar(s[i])]

to_uppercase(s) == [i \in 1..Len(s) |-> UpperChar(s[i])]

\* the UTF-8 length of a character: the glyphs take three bytes, the
\* accented letter ("U00E9", "U00C9") two
char_len(ch) ==
    IF ch \in {GlyphCmd, GlyphOpt, GlyphUp, GlyphDown, GlyphLeft, GlyphRight,
               GlyphEnter}
    THEN 3
    ELSE IF ch \in {"U00E9", "U00C9"} THEN 2 ELSE 1

\* String::len, in bytes
RECURSIVE str_len(_)
str_len(s) == IF s = <<>> THEN 0 ELSE char_len(Head(s)) + str_len(Tail(s))

IsWhitespace(ch) == ch \in {" ", "\t"}

RECURSIVE trim_start(_)
trim_start(s) ==
    IF s # <<>> /\ IsWhitespace(Head(s)) THEN trim_start(Tail(s)) ELSE s

RECURSIVE trim_end(_)
trim_end(s) ==
    IF s # <<>> /\ IsWhitespace(s[Len(s)])
    THEN trim_end(SubSeq(s, 1, Len(s) - 1))
    ELSE s

\* variant: the segments are not trimmed
no_trim(s) == s

\* str::trim
trim(s) == trim_end(trim_start(s))

\* str::split('+'): the segments between the separators, empty ones included
RECURSIVE split(_, _)
split(s, cur) ==
    IF s = <<>> THEN <<cur>>
    ELSE IF Head(s) = "+" THEN <<cur>> \o split(Tail(s), <<>>)
    ELSE split(Tail(s), Append(cur, Head(s)))

\* variant: the tokens are joined with a blank
RECURSIVE join_blank(_)
join_blank(parts) ==
    IF parts = <<>> THEN <<>>
    ELSE IF Len(parts) = 1 THEN parts[1]
    ELSE parts[1] \o <<" ">> \o join_blank(Tail(parts))

\* [String]::join("+")
RECURSIVE join(_)
join(parts) ==
    IF parts = <<>> THEN <<>>
    ELSE IF Len(parts) = 1 THEN parts[1]
    ELSE parts[1] \o <<"+">> \o join(Tail(parts))

RECURSIVE filter_non_empty(_)
filter_non_empty(parts) ==
    IF parts = <<>> THEN <<>>
    ELSE IF Head(parts) = <<>> THEN filter_non_empty(Tail(parts))
    ELSE <<Head(parts)>> \o filter_non_empty(Tail(parts))

(***************************************************************************)
(* Option<T>.                                                              *)
(***************************************************************************)
None == [tag |-> "None"]

Some(v) == [tag |-> "Some", val |-> v]

(***************************************************************************)
(* parse_shortcut.                                                         *)
(***************************************************************************)
\* variant: the meta modifier is Cmd on every platform
meta_token_mac(is_mac) == <<"C","m","d">>

\* the arm of the meta synonyms
meta_token(is_mac) == IF is_mac THEN <<"C","m","d">> ELSE <<"C","t","r","l">>

\* variant: a literal key is upper-cased as a whole
literal_key_upper(part) == to_uppercase(part)

\* the default arm: a literal key
literal_key(part) ==
    IF str_len(part) = 1 THEN to_uppercase(part)
    ELSE <<UpperChar(Head(part))>> \o Tail(part)

\* the match of one trimmed, non-empty segment
map_part(part, is_mac) ==
    LET low == to_lowercase(part) IN
    IF low \in {<<GlyphCmd>>, <<"c","m","d">>, <<"c","o","m","m","a","n","d">>}
        THEN meta_token(is_mac)
    ELSE IF low \in {<<"c","t","r","l">>, <<"c","o","n","t","r","o","l">>}
        THEN <<"C","t","r","l">>
    ELSE IF low = <<"s","h","i","f","t">> THEN <<"S","h","i","f","t">>
    ELSE IF low \in {<<"a","l","t">>, <<GlyphOpt>>, <<"o","p","t","i","o","n">>}
        THEN <<"A","l","t">>
    ELSE IF low \in {<<GlyphUp>>, <<"u","p">>} THEN <<"U","p">>
    ELSE IF low \in {<<GlyphDown>>, <<"d","o","w","n">>} THEN <<"D","o","w","n">>
    ELSE IF low \in {<<GlyphLeft>>, <<"l","e","f","t">>} THEN <<"L","e","f","t">>
    ELSE IF low \in {<<GlyphRight>>, <<"r","i","g","h","t">>}
        THEN <<"R","i","g","h","t">>
    ELSE IF low \in {<<GlyphEnter>>, <<"e","n","t","e","r">>,
                     <<"r","e","t","u","r","n">>}
        THEN <<"E","n","t","e","r">>
    ELSE IF low \in {<<"e","s","c">>, <<"e","s","c","a","p","e">>}
        THEN <<"E","s","c","a","p","e">>
    ELSE IF low = <<"s","p","a","c","e">> THEN <<"S","p","a","c","e">>
    ELSE IF low = <<"t","a","b">> THEN <<"T","a","b">>
    ELSE literal_key(part)

\* variant: the tokens come out last segment first
parse_parts_reversed(verbose, is_mac) ==
    LET raw == split(verbose, <<>>)
        segs == filter_non_empty([i \in 1..Len(raw) |-> trim(raw[i])])
    IN  [i \in 1..Len(segs) |-> map_part(segs[Len(segs) + 1 - i], is_mac)]

\* the canonical tokens of a shortcut text, in the order of its segments
parse_parts(verbose, is_mac) ==
    LET raw == split(verbose, <<>>)
        segs == filter_non_empty([i \in 1..Len(raw) |-> trim(raw[i])])
    IN  [i \in 1..Len(segs) |-> map_part(segs[i], is_mac)]

parse_shortcut(verbose, is_mac) ==
    IF verbose = <<>> THEN None
    ELSE LET parts == parse_parts(verbose, is_mac) IN
         IF parts = <<>> THEN None ELSE Some(join(parts))

(***************************************************************************)
(* The catalog: ShortcutEntry, PlatformShortcut, CustomShortcut.           *)
(***************************************************************************)
AllKeys == <<"screenshot", "move-up", "hide-show", "quit">>

Keys == {AllKeys[i] : i \in 1..NumKeys}

PlatformShortcut(m, w) == [mac |-> m, windows |-> w]

CustomShortcut(m, w) == [mac |-> m, windows |-> w]

ShortcutEntry(k, t, d, c, def) ==
    [key |-> k, title |-> t, description |-> d, category |-> c,
     default_shortcut |-> def, custom_shortcut |-> None]

\* WhisperSettings::default().shortcuts, restricted to Keys
DefaultShortcuts ==
    [k \in Keys |->
        CASE k = "screenshot" ->
               ShortcutEntry(k, "Screenshot",
                   "Capture screenshot to load it in your preferred AI", "core",
                   PlatformShortcut(<<GlyphCmd," ","+"," ","S">>,
                                    <<"C","t","r","l"," ","+"," ","S">>))
          [] k = "move-up" ->
               ShortcutEntry(k, "Move Window Up",
                   "Move the WhisprGPT window upward", "movement",
                   PlatformShortcut(<<GlyphCmd," ","+"," ",GlyphUp>>,
                                    <<"C","t","r","l"," ","+"," ",GlyphUp>>))
          [] k = "hide-show" ->
               ShortcutEntry(k, "Hide/Show Window",
                   "Toggle visibility of the WhisprGPT window", "system",
                   PlatformShortcut(<<GlyphCmd," ","+"," ","H">>,
                                    <<"C","t","r","l"," ","+"," ","H">>))
          [] OTHER ->
               ShortcutEntry(k, "Emergency Exit",
                   "Instantly close WhisprGPT (kill switch)", "system",
                   PlatformShortcut(<<GlyphCmd," ","+"," ","Q">>,
                                    <<"C","t","r","l"," ","+"," ","W">>))]

\* a catalog read back from a settings file in which one action has no
\* default hotkey: an empty string on macOS, only separators on Windows
UnboundShortcuts ==
    [DefaultShortcuts EXCEPT
        !["screenshot"].default_shortcut =
            PlatformShortcut(<<>>, <<" ","+"," ">>)]

(***************************************************************************)
(* Arguments the commands are invoked with.                                *)
(***************************************************************************)
CommandKeys == Keys \cup {"nonexistent"}

PlatformArgs == {"mac", "windows"}

ShortcutArgs ==
    { <<>>,
      <<GlyphCmd,"+",GlyphUp>> }

(***************************************************************************)
(* The OS global shortcut manager.  A registration is the accelerator, the *)
(* action whose callback it carries and the invocation that made it.       *)
(***************************************************************************)
Registration(combo, owner, by) == [combo |-> combo, owner |-> owner, by |-> by]

Combos(regs) == {r.combo : r \in regs}

\* the combinations another application may hold
OsRejectChoices ==
    { {},
      {<<"C","t","r","l","+","S">>, <<"C","m","d","+","S">>,
       <<"C","t","r","l","+","H">>} }

\* GlobalShortcutManager::register: whether the OS takes the accelerator
os_accepts(regs, rejects, dup_rejects, combo) ==
    /\ combo \notin rejects
    /\ ~(dup_rejects /\ combo \in Combos(regs))

\* the registrations after a successful register
os_register(regs, combo, owner, by) ==
    {r \in regs : r.combo # combo} \cup {Registration(combo, owner, by)}

\* the registrations after a successful unregister_all
os_unregister_all(regs) == {}

(***************************************************************************)
(* Binding resolution of register_shortcuts_command.                       *)
(***************************************************************************)
platform_of(is_mac) == IF is_mac THEN "mac" ELSE "windows"

unwrap_or(opt, dflt) == IF opt.tag = "Some" THEN opt.val ELSE dflt

\* the shortcut string of one entry: custom first, then default
shortcut_str(shortcut_entry, platform) ==
    IF shortcut_entry.custom_shortcut.tag = "Some"
    THEN LET custom == shortcut_entry.custom_shortcut.val IN
         IF platform = "mac"
         THEN unwrap_or(custom.mac, shortcut_entry.default_shortcut.mac)
         ELSE unwrap_or(custom.windows, shortcut_entry.default_shortcut.windows)
    ELSE IF platform = "mac"
         THEN shortcut_entry.default_shortcut.mac
         ELSE shortcut_entry.default_shortcut.windows

\* what the loop body does with one entry: nothing, or a register call
parsed_of(shortcut_entry, is_mac) ==
    LET str == shortcut_str(shortcut_entry, platform_of(is_mac)) IN
    IF str = <<>> THEN None ELSE parse_shortcut(str, is_mac)

(***************************************************************************)
(* update_shortcut_command and reset_shortcut_command on one entry.        *)
(***************************************************************************)
\* variant: the override is rebuilt from scratch, dropping the other platform
set_custom_fresh(shortcut_entry, platform, shortcut) ==
    LET custom == CustomShortcut(None, None)
        updated == IF platform = "mac"
                   THEN [custom EXCEPT !.mac = Some(shortcut)]
                   ELSE [custom EXCEPT !.windows = Some(shortcut)]
    IN  [shortcut_entry EXCEPT !.custom_shortcut = Some(updated)]

\* variant: the windows field is written for "windows" only, the mac field
\* for every other platform string
set_custom_windows_exact(shortcut_entry, platform, shortcut) ==
    LET custom == unwrap_or(shortcut_entry.custom_shortcut,
                            CustomShortcut(None, None))
        updated == IF platform = "windows"
                   THEN [custom EXCEPT !.windows = Some(shortcut)]
                   ELSE [custom EXCEPT !.mac = Some(shortcut)]
    IN  [shortcut_entry EXCEPT !.custom_shortcut = Some(updated)]

set_custom(shortcut_entry, platform, shortcut) ==
    LET custom == unwrap_or(shortcut_entry.custom_shortcut,
                            CustomShortcut(None, None))
        updated == IF platform = "mac"
                   THEN [custom EXCEPT !.mac = Some(shortcut)]
                   ELSE [custom EXCEPT !.windows = Some(shortcut)]
    IN  [shortcut_entry EXCEPT !.custom_shortcut = Some(updated)]

\* variant: the two fields are cleared, the override itself stays
clear_custom_fields(shortcut_entry) ==
    [shortcut_entry EXCEPT !.custom_shortcut = Some(CustomShortcut(None, None))]

\* variant: only the mac field of the override is cleared
clear_custom_mac(shortcut_entry) ==
    IF shortcut_entry.custom_shortcut.tag = "Some"
    THEN [shortcut_entry EXCEPT !.custom_shortcut.val.mac = None]
    ELSE shortcut_entry

clear_custom(shortcut_entry) == [shortcut_entry EXCEPT !.custom_shortcut = None]

(***************************************************************************)
(* State.                                                                  *)
(***************************************************************************)
Threads == {"t1", "t2"}

VARIABLES
    phase,       \* "setup" until main's setup closure has run, then "running"
    is_mac,      \* cfg!(target_os = "macos")
    os_rejects,  \* accelerators held by other applications
    dup_rejects, \* whether the OS refuses an accelerator this process holds
    shortcuts,   \* settings.shortcuts, the map behind the Mutex
    lock,        \* the thread holding the settings Mutex, or "free"
    hotkeys,     \* the registrations live in the OS
    ncalls,      \* command invocations so far
    pc,          \* per thread: where its command stands
    id,          \* per thread: the number of the invocation it runs
    todo,        \* per thread: entries the for loop has not visited yet
    registered,  \* per thread: the loop's success counter
    failed,      \* per thread: the loop's failure counter
    outcome,     \* per thread, per entry: what the loop did with it
    alone,       \* per thread: no other command touched the OS during the sync
    returned,    \* the command that returned last: arguments and result
    last_sync,   \* what the last completed sync produced, and whether the
                 \* catalog has been written since
    segments,    \* parser run: the '+'-separated segments of the text
    verbose,     \* parser run: the text handed to parse_shortcut
    combo,       \* parser run: what parse_shortcut returned for it
    reparsed,    \* parser run: what parse_shortcut returned for the combo
    before,      \* store run: the catalog the last command started from,
                 \* empty outside such a run
    settings_file, \* settings cache: the content of settings.json, if any
    state,         \* settings cache: the Option<WhisperSettings> in the Mutex
    cmd,           \* settings cache, per thread: position in its command
    settings,      \* settings cache, per thread: the settings it is saving,
                   \* if it is saving any
    write_failed   \* settings cache: some write of settings.json has failed

vars == <<phase, is_mac, os_rejects, dup_rejects, shortcuts, lock, hotkeys,
          ncalls, pc, id, todo, registered, failed, outcome, alone, returned,
          last_sync, segments, verbose, combo, reparsed, before,
          settings_file, state, cmd, settings, write_failed>>

\* a run of parse_shortcut on its own
parser == <<segments, verbose, combo, reparsed>>

\* a run of the two store commands on their own
store_run == <<before>>

\* a run of the settings commands on their own
cache_run == <<settings_file, state, cmd, settings, write_failed>>

\* what the commands of the shortcut manager never touch
standalone == <<parser, store_run, cache_run>>

\* parse_shortcut has not been called yet
NotParsed == [tag |-> "NotParsed"]

env == <<is_mac, os_rejects, dup_rejects>>

\* the locals of register_shortcuts_command
locals == <<todo, registered, failed, outcome, alone>>

\* Result<bool, String>: what a command hands back to its caller
Ok(v) == [tag |-> "Ok", type |-> "bool", val |-> v]

Err(msg) == [tag |-> "Err", type |-> "String", val |-> msg]

NoCall == [op |-> "none", thread |-> "", command_key |-> "",
           platform |-> "", shortcut |-> <<>>, ret |-> Ok(FALSE),
           registered |-> 0, failed |-> 0]

\* a returned command without arguments
Call(op, t, ret) ==
    [NoCall EXCEPT !.op = op, !.thread = t, !.ret = ret]

NoOutcome == [k \in Keys |-> "pending"]

\* WhisperSettings, as far as the shortcut catalog goes
WhisperSettings(map) == [shortcuts |-> map]

\* WhisperSettings::default()
default_settings == WhisperSettings(DefaultShortcuts)

\* no settings command is running and none has run
NoCacheRun ==
    /\ settings_file = None
    /\ state = None
    /\ cmd = [t \in Threads |-> "idle"]
    /\ settings = [t \in Threads |-> None]
    /\ write_failed = FALSE

Init ==
    /\ phase = "setup"
    /\ is_mac \in BOOLEAN
    /\ os_rejects \in OsRejectChoices
    /\ dup_rejects \in BOOLEAN
    /\ shortcuts \in {DefaultShortcuts, UnboundShortcuts}
    /\ lock = "free"
    /\ hotkeys = {}
    /\ ncalls = 0
    /\ pc = [t \in Threads |-> "idle"]
    /\ id = [t \in Threads |-> 0]
    /\ todo = [t \in Threads |-> {}]
    /\ registered = [t \in Threads |-> 0]
    /\ failed = [t \in Threads |-> 0]
    /\ outcome = [t \in Threads |-> NoOutcome]
    /\ alone = [t \in Threads |-> TRUE]
    /\ returned = NoCall
    /\ last_sync = None
    /\ segments = <<>>
    /\ verbose = <<>>
    /\ combo = NotParsed
    /\ reparsed = NotParsed
    /\ before = <<>>
    /\ NoCacheRun

(***************************************************************************)
(* main: the hotkeys registered by the setup closure.                      *)
(***************************************************************************)
StartupHotkeys ==
    << [combo |-> <<"C","t","r","l","+","U","p">>, owner |-> "window_up"],
       [combo |-> <<"C","t","r","l","+","D","o","w","n">>, owner |-> "window_down"],
       [combo |-> <<"C","t","r","l","+","L","e","f","t">>, owner |-> "window_left"],
       [combo |-> <<"C","t","r","l","+","R","i","g","h","t">>, owner |-> "window_right"],
       [combo |-> <<"C","t","r","l","+","H">>, owner |-> "window_hide"] >>

RECURSIVE register_startup(_, _, _, _)
register_startup(regs, rejects, dups, i) ==
    IF i > Len(StartupHotkeys) THEN regs
    ELSE LET h == StartupHotkeys[i] IN
         IF os_accepts(regs, rejects, dups, h.combo)
         THEN register_startup(os_register(regs, h.combo, h.owner, 0),
                               rejects, dups, i + 1)
         ELSE register_startup(regs, rejects, dups, i + 1)

Setup ==
    /\ phase = "setup"
    /\ phase' = "running"
    /\ \E has_window \in BOOLEAN :
          hotkeys' = IF has_window
                     THEN register_startup(hotkeys, os_rejects, dup_rejects, 1)
                     ELSE hotkeys
    /\ UNCHANGED <<env, standalone, shortcuts, lock, ncalls, pc, id, locals, returned,
                   last_sync>>

(***************************************************************************)
(* Commands.  A thread runs one command at a time; the commands of         *)
(* different threads interleave at their lock and OS calls.  The arguments *)
(* of a command show in `returned` once it has returned.                   *)
(***************************************************************************)
\* the threads are interchangeable: "t2" is used only while "t1" is busy
Invoke(t, at) ==
    /\ phase = "running"
    /\ pc[t] = "idle"
    /\ t = "t2" => pc["t1"] # "idle"
    /\ ncalls < MaxCalls
    /\ ncalls' = ncalls + 1
    /\ id' = [id EXCEPT ![t] = ncalls + 1]
    /\ pc' = [pc EXCEPT ![t] = at]
    /\ UNCHANGED <<phase, env, standalone, shortcuts, lock, hotkeys, locals, returned,
                   last_sync>>

InSync(t) == pc[t] = "sync_loop"

\* threads whose sync has started registering see another command's OS call
Disturb(t) == [u \in Threads |-> IF u # t /\ InSync(u) THEN FALSE ELSE alone[u]]

(***************************************************************************)
(* register_shortcuts_command.                                             *)
(***************************************************************************)
InvokeRegister(t) == Invoke(t, "sync_lock")

\* variant: the sync goes on without waiting for the settings Mutex
RegisterLock_unguarded(t) ==
    /\ pc[t] = "sync_lock"
    /\ lock' = t
    /\ pc' = [pc EXCEPT ![t] = "sync_unreg"]
    /\ UNCHANGED <<phase, env, standalone, shortcuts, hotkeys, ncalls, id, locals,
                   returned, last_sync>>

\* settings.lock(): the guard lives until the function returns
RegisterLock(t) ==
    /\ pc[t] = "sync_lock"
    /\ lock = "free"
    /\ lock' = t
    /\ pc' = [pc EXCEPT ![t] = "sync_unreg"]
    /\ UNCHANGED <<phase, env, standalone, shortcuts, hotkeys, ncalls, id, locals,
                   returned, last_sync>>

\* variant: only what an earlier sync registered is dropped
unregister_step_keeps_startup(regs) == {r \in regs : r.by = 0}

\* variant: the sync does not unregister at all
unregister_step_missing(regs) == regs

\* the registrations left by the unregister_all() call that opens the sync
unregister_step(regs) == os_unregister_all(regs)

\* variant: the error of unregister_all() is reported after the hotkeys are
\* dropped all the same
RegisterUnregisterAll_drops_on_error(t) ==
    /\ pc[t] = "sync_unreg"
    /\ \E os_ok \in BOOLEAN :
        IF os_ok
        THEN /\ hotkeys' = unregister_step(hotkeys)
             /\ registered' = [registered EXCEPT ![t] = 0]
             /\ failed' = [failed EXCEPT ![t] = 0]
             /\ todo' = [todo EXCEPT ![t] = DOMAIN shortcuts]
             /\ outcome' = [outcome EXCEPT ![t] = NoOutcome]
             /\ alone' = [Disturb(t) EXCEPT ![t] = TRUE]
             /\ pc' = [pc EXCEPT ![t] = "sync_loop"]
             /\ UNCHANGED <<lock, returned>>
        ELSE /\ returned' = Call("register", t,
                                 Err("Failed to unregister shortcuts"))
             /\ hotkeys' = unregister_step(hotkeys)
             /\ lock' = "free"
             /\ pc' = [pc EXCEPT ![t] = "idle"]
             /\ UNCHANGED locals
    /\ UNCHANGED <<phase, env, standalone, shortcuts, ncalls, id, last_sync>>

\* shortcut_manager.unregister_all()?, then the counters and the iterator
RegisterUnregisterAll(t) ==
    /\ pc[t] = "sync_unreg"
    /\ \E os_ok \in BOOLEAN :
        IF os_ok
        THEN /\ hotkeys' = unregister_step(hotkeys)
             /\ registered' = [registered EXCEPT ![t] = 0]
             /\ failed' = [failed EXCEPT ![t] = 0]
             /\ todo' = [todo EXCEPT ![t] = DOMAIN shortcuts]
             /\ outcome' = [outcome EXCEPT ![t] = NoOutcome]
             /\ alone' = [Disturb(t) EXCEPT ![t] = TRUE]
             /\ pc' = [pc EXCEPT ![t] = "sync_loop"]
             /\ UNCHANGED <<lock, returned>>
        ELSE /\ returned' = Call("register", t,
                                 Err("Failed to unregister shortcuts"))
             /\ lock' = "free"
             /\ pc' = [pc EXCEPT ![t] = "idle"]
             /\ UNCHANGED <<hotkeys, locals>>
    /\ UNCHANGED <<phase, env, standalone, shortcuts, ncalls, id, last_sync>>

\* the loop's view of the world: the OS registrations, the two counters and
\* what was done with the entry just visited
LoopState(regs, reg, fail) ==
    [hotkeys |-> regs, registered |-> reg, failed |-> fail, result |-> "pending"]

\* variant: a skipped entry is counted as a failure
skip_entry_failed(ls) == [ls EXCEPT !.failed = @ + 1, !.result = "skipped"]

\* continue: an empty shortcut string, or one that parses to None
skip_entry(ls) == [ls EXCEPT !.result = "skipped"]

\* the Ok(_) arm of the register call
register_ok(ls, parsed, key, by) ==
    [ls EXCEPT !.hotkeys = os_register(@, parsed, key, by),
               !.registered = @ + 1,
               !.result = "ok"]

\* variant: the Err(e) arm bumps the wrong counter
register_err_miscounted(ls) == [ls EXCEPT !.registered = @ + 1, !.result = "err"]

\* variant: the Err(e) arm only logs, the failure is not counted
register_err_uncounted(ls) == [ls EXCEPT !.result = "err"]

\* the Err(e) arm of the register call
register_err(ls) == [ls EXCEPT !.failed = @ + 1, !.result = "err"]

\* variant: the shortcut string is registered as written, not as parsed
loop_body_raw(ls, shortcut_entry, key, by, mac, rejects, dups) ==
    LET parsed == parsed_of(shortcut_entry, mac)
        raw == shortcut_str(shortcut_entry, platform_of(mac))
    IN
    IF parsed.tag = "None" THEN skip_entry(ls)
    ELSE IF os_accepts(ls.hotkeys, rejects, dups, raw)
         THEN register_ok(ls, raw, key, by)
         ELSE register_err(ls)

\* the body of the for loop for one entry
loop_body(ls, shortcut_entry, key, by, mac, rejects, dups) ==
    LET parsed == parsed_of(shortcut_entry, mac) IN
    IF parsed.tag = "None" THEN skip_entry(ls)
    ELSE IF os_accepts(ls.hotkeys, rejects, dups, parsed.val)
         THEN register_ok(ls, parsed.val, key, by)
         ELSE register_err(ls)

\* variant: the loop stops at the first rejected registration
loop_rest_break(rest, result) == IF result = "err" THEN {} ELSE rest

\* the entries the loop still visits after the body has run for one entry
loop_rest(rest, result) == rest

\* one iteration of the for loop over settings.shortcuts, in the map's order
RegisterVisit(t) ==
    /\ pc[t] = "sync_loop"
    /\ \E key \in todo[t] :
        LET ls == loop_body(LoopState(hotkeys, registered[t], failed[t]),
                            shortcuts[key], key, id[t],
                            is_mac, os_rejects, dup_rejects)
        IN  /\ hotkeys' = ls.hotkeys
            /\ registered' = [registered EXCEPT ![t] = ls.registered]
            /\ failed' = [failed EXCEPT ![t] = ls.failed]
            /\ outcome' = [outcome EXCEPT ![t][key] = ls.result]
            /\ todo' = [todo EXCEPT ![t] = loop_rest(todo[t] \ {key}, ls.result)]
            /\ alone' = IF ls.result = "ok" THEN Disturb(t) ELSE alone
    /\ UNCHANGED <<phase, env, standalone, shortcuts, lock, ncalls, pc, id, returned,
                   last_sync>>

\* what register_shortcuts_command returns once the loop is over
register_result(reg, fail) == Ok(TRUE)

\* variant: the guard is not dropped when the function returns
RegisterReturn_keeps_guard(t) ==
    /\ pc[t] = "sync_loop"
    /\ todo[t] = {}
    /\ returned' = [Call("register", t,
                         register_result(registered[t], failed[t]))
                      EXCEPT !.registered = registered[t],
                             !.failed = failed[t]]
    /\ pc' = [pc EXCEPT ![t] = "idle"]
    /\ last_sync' = Some([unchanged |-> TRUE,
                          registered |-> registered[t],
                          failed |-> failed[t],
                          combos |-> Combos(hotkeys),
                          alone |-> alone[t]])
    /\ registered' = [registered EXCEPT ![t] = 0]
    /\ failed' = [failed EXCEPT ![t] = 0]
    /\ outcome' = [outcome EXCEPT ![t] = NoOutcome]
    /\ alone' = [alone EXCEPT ![t] = TRUE]
    /\ UNCHANGED <<phase, env, standalone, shortcuts, lock, hotkeys, ncalls, id,
                   todo>>

\* the loop is over: the counters are logged, the guard dropped, Ok(true)
RegisterReturn(t) ==
    /\ pc[t] = "sync_loop"
    /\ todo[t] = {}
    /\ returned' = [Call("register", t,
                         register_result(registered[t], failed[t]))
                      EXCEPT !.registered = registered[t],
                             !.failed = failed[t]]
    /\ lock' = "free"
    /\ pc' = [pc EXCEPT ![t] = "idle"]
    /\ last_sync' = Some([unchanged |-> TRUE,
                          registered |-> registered[t],
                          failed |-> failed[t],
                          combos |-> Combos(hotkeys),
                          alone |-> alone[t]])
    /\ registered' = [registered EXCEPT ![t] = 0]
    /\ failed' = [failed EXCEPT ![t] = 0]
    /\ outcome' = [outcome EXCEPT ![t] = NoOutcome]
    /\ alone' = [alone EXCEPT ![t] = TRUE]
    /\ UNCHANGED <<phase, env, standalone, shortcuts, hotkeys, ncalls, id, todo>>

(***************************************************************************)
(* unregister_shortcuts_command.                                           *)
(***************************************************************************)
InvokeUnregister(t) == Invoke(t, "unreg_call")

\* variant: success is reported without the unregister_all() call
UnregisterCall_noop(t) ==
    /\ pc[t] = "unreg_call"
    /\ returned' = Call("unregister", t, Ok(TRUE))
    /\ pc' = [pc EXCEPT ![t] = "idle"]
    /\ UNCHANGED <<phase, env, standalone, shortcuts, lock, hotkeys, ncalls, id,
                   locals, last_sync>>

UnregisterCall(t) ==
    /\ pc[t] = "unreg_call"
    /\ \E os_ok \in BOOLEAN :
        IF os_ok
        THEN /\ hotkeys' = os_unregister_all(hotkeys)
             /\ alone' = Disturb(t)
             /\ returned' = Call("unregister", t, Ok(TRUE))
        ELSE /\ returned' = Call("unregister", t,
                                 Err("Failed to unregister shortcuts"))
             /\ UNCHANGED <<hotkeys, alone>>
    /\ pc' = [pc EXCEPT ![t] = "idle"]
    /\ UNCHANGED <<phase, env, standalone, shortcuts, lock, ncalls, id, todo, registered,
                   failed, outcome, last_sync>>

\* the record of the last sync once a command has written the catalog
Touched(changed) ==
    IF changed /\ last_sync.tag = "Some"
    THEN Some([last_sync.val EXCEPT !.unchanged = FALSE])
    ELSE last_sync

(***************************************************************************)
(* update_shortcut_command.                                                *)
(***************************************************************************)
InvokeUpdate(t) == Invoke(t, "upd_lock")

\* variant: an unknown key is inserted, as a copy of the first entry
update_shortcuts_upsert(map, command_key, shortcut, platform) ==
    [k \in DOMAIN map \cup {command_key} |->
        IF k # command_key THEN map[k]
        ELSE set_custom(IF k \in DOMAIN map THEN map[k] ELSE map[AllKeys[1]],
                        platform, shortcut)]

\* variant: the override is written to every entry of the catalog
update_shortcuts_all(map, command_key, shortcut, platform) ==
    IF command_key \in DOMAIN map
    THEN [k \in DOMAIN map |-> set_custom(map[k], platform, shortcut)]
    ELSE map

update_shortcuts(map, command_key, shortcut, platform) ==
    IF command_key \in DOMAIN map
    THEN [map EXCEPT ![command_key] = set_custom(@, platform, shortcut)]
    ELSE map

\* variant: success is reported whether or not the entry exists
update_result_always_ok(map, command_key) == Ok(TRUE)

update_result(map, command_key) ==
    IF command_key \in DOMAIN map THEN Ok(TRUE) ELSE Err("not found")

\* variant: the hotkeys are dropped as soon as an override is written
UpdateShortcut_unregisters(t) ==
    /\ pc[t] = "upd_lock"
    /\ lock = "free"
    /\ \E command_key \in CommandKeys, platform \in PlatformArgs,
          shortcut \in ShortcutArgs :
        /\ shortcuts' = update_shortcuts(shortcuts, command_key, shortcut, platform)
        /\ returned' = [Call("update", t, update_result(shortcuts, command_key))
                          EXCEPT !.command_key = command_key,
                                 !.platform = platform,
                                 !.shortcut = shortcut]
    /\ hotkeys' = IF shortcuts' # shortcuts THEN os_unregister_all(hotkeys)
                  ELSE hotkeys
    /\ last_sync' = Touched(shortcuts' # shortcuts)
    /\ pc' = [pc EXCEPT ![t] = "idle"]
    /\ UNCHANGED <<phase, env, standalone, lock, ncalls, id, locals>>

\* the whole body runs under the guard and makes no outside call
UpdateShortcut(t) ==
    /\ pc[t] = "upd_lock"
    /\ lock = "free"
    /\ \E command_key \in CommandKeys, platform \in PlatformArgs,
          shortcut \in ShortcutArgs :
        /\ shortcuts' = update_shortcuts(shortcuts, command_key, shortcut, platform)
        /\ returned' = [Call("update", t, update_result(shortcuts, command_key))
                          EXCEPT !.command_key = command_key,
                                 !.platform = platform,
                                 !.shortcut = shortcut]
    /\ last_sync' = Touched(shortcuts' # shortcuts)
    /\ pc' = [pc EXCEPT ![t] = "idle"]
    /\ UNCHANGED <<phase, env, standalone, lock, hotkeys, ncalls, id, locals>>

(***************************************************************************)
(* reset_shortcut_command.                                                 *)
(***************************************************************************)
InvokeReset(t) == Invoke(t, "rst_lock")

reset_shortcuts(map, command_key) ==
    IF command_key \in DOMAIN map
    THEN [map EXCEPT ![command_key] = clear_custom(@)]
    ELSE map

reset_result(map, command_key) ==
    IF command_key \in DOMAIN map THEN Ok(TRUE) ELSE Err("not found")

ResetShortcut(t) ==
    /\ pc[t] = "rst_lock"
    /\ lock = "free"
    /\ \E command_key \in CommandKeys :
        /\ shortcuts' = reset_shortcuts(shortcuts, command_key)
        /\ returned' = [Call("reset", t, reset_result(shortcuts, command_key))
                          EXCEPT !.command_key = command_key]
    /\ last_sync' = Touched(shortcuts' # shortcuts)
    /\ pc' = [pc EXCEPT ![t] = "idle"]
    /\ UNCHANGED <<phase, env, standalone, lock, hotkeys, ncalls, id, locals>>

(***************************************************************************)
(* The closure register_shortcuts_command hands to the OS with each        *)
(* accelerator; the OS calls it on a thread of its own when the            *)
(* accelerator is pressed.                                                 *)
(***************************************************************************)
\* variant: the closure waits for the settings Mutex and drops the hotkeys
on_trigger_resync(key_clone) ==
    /\ lock = "free"
    /\ hotkeys' = {}
    /\ UNCHANGED <<phase, env, standalone, shortcuts, lock, ncalls, pc, id,
                   locals, returned, last_sync>>

\* move || { debug!("Shortcut triggered: {}", key_clone); }
on_trigger(key_clone) == UNCHANGED vars

Trigger == \E r \in hotkeys : r.by # 0 /\ on_trigger(r.owner)

Next ==
    \/ Setup
    \/ Trigger
    \/ \E t \in Threads : InvokeRegister(t)
    \/ \E t \in Threads : RegisterLock(t)
    \/ \E t \in Threads : RegisterUnregisterAll(t)
    \/ \E t \in Threads : RegisterVisit(t)
    \/ \E t \in Threads : RegisterReturn(t)
    \/ \E t \in Threads : InvokeUnregister(t)
    \/ \E t \in Threads : UnregisterCall(t)
    \/ \E t \in Threads : InvokeUpdate(t)
    \/ \E t \in Threads : UpdateShortcut(t)
    \/ \E t \in Threads : InvokeReset(t)
    \/ \E t \in Threads : ResetShortcut(t)

Spec == Init /\ [][Next]_vars

\* the steps of a command running on thread t, from its first statement to
\* its return
Run(t) ==
    \/ RegisterLock(t)
    \/ RegisterUnregisterAll(t)
    \/ RegisterVisit(t)
    \/ RegisterReturn(t)
    \/ UnregisterCall(t)
    \/ UpdateShortcut(t)
    \/ ResetShortcut(t)

\* the program on macOS with the default catalog, beside applications that
\* may hold some of its accelerators: whether a command returns does not
\* depend on more of the environment than the OS accepting or refusing
FairInit ==
    /\ Init
    /\ is_mac
    /\ ~dup_rejects
    /\ shortcuts = DefaultShortcuts

\* where a thread can be
PcValues == {"idle", "sync_lock", "sync_unreg", "sync_loop", "unreg_call",
             "upd_lock", "rst_lock"}

\* thread t is inside a command and is not blocked in settings.lock(): when
\* Run(t) can take a step
Runnable(t) ==
    /\ pc[t] # "idle"
    /\ pc[t] \in {"sync_lock", "upd_lock", "rst_lock"} => lock = "free"

\* thread t moves on in its command.  Among the steps of Next these are the
\* steps of Run(t), and Advance(t) is enabled exactly when Run(t) is
Advance(t) ==
    /\ Runnable(t)
    /\ pc' \in [Threads -> PcValues]
    /\ todo' \in [Threads -> SUBSET Keys]
    /\ pc'[t] # pc[t] \/ todo'[t] # todo[t]

\* the scheduler runs every thread that can take a step, and every OS call
\* returns; the frontend may stop invoking commands at any time
FairSpec ==
    /\ FairInit
    /\ [][Next]_vars
    /\ \A t \in Threads : WF_<<pc, todo>>(Advance(t))

(***************************************************************************)
(* parse_shortcut on its own: a text is put together from segments, parsed *)
(* for one platform, and the combo it yields is parsed again.              *)
(***************************************************************************)
\* the largest number of '+'-separated segments of a text
MaxSegs == 3

\* the words of the synonym table, lower case
SynonymWords ==
    { <<GlyphCmd>>, <<"c","m","d">>, <<"c","o","m","m","a","n","d">>,
      <<"c","t","r","l">>, <<"c","o","n","t","r","o","l">>,
      <<"s","h","i","f","t">>,
      <<"a","l","t">>, <<GlyphOpt>>, <<"o","p","t","i","o","n">>,
      <<GlyphUp>>, <<"u","p">>, <<GlyphDown>>, <<"d","o","w","n">>,
      <<GlyphLeft>>, <<"l","e","f","t">>, <<GlyphRight>>, <<"r","i","g","h","t">>,
      <<GlyphEnter>>, <<"e","n","t","e","r">>, <<"r","e","t","u","r","n">>,
      <<"e","s","c">>, <<"e","s","c","a","p","e">>,
      <<"s","p","a","c","e">>, <<"t","a","b">> }

\* a word in every mix of upper and lower case
RECURSIVE CaseVariants(_)
CaseVariants(word) ==
    IF word = <<>> THEN {<<>>}
    ELSE {<<ch>> \o rest : ch \in {Head(word), UpperChar(Head(word))},
                           rest \in CaseVariants(Tail(word))}

\* segments that match no synonym
LiteralSegments ==
    { <<"g">>, <<"S">>, <<"U00E9">>, <<"f","O","o">>, <<"U00E9","t","E">>,
      <<"c","m","d","s">> }

\* texts of one segment: every synonym in every letter case, and literals
SingleSegments ==
    UNION {CaseVariants(word) : word \in SynonymWords} \cup LiteralSegments

\* the segments longer texts are put together from: empty and blank ones,
\* synonyms with and without padding, literals
FewSegments ==
    { <<>>, <<" ">>,
      <<"c","m","d">>, <<"C","T","R","L">>, <<" ","S","h","i","f","t"," ">>,
      <<GlyphUp>>, <<" ","s">>, <<"f","O","o">>, <<"U00E9">> }

\* the text whose '+'-separated segments are segs
RECURSIVE TextOf(_)
TextOf(segs) ==
    IF segs = <<>> THEN <<>>
    ELSE IF Len(segs) = 1 THEN segs[1]
    ELSE segs[1] \o <<"+">> \o TextOf(Tail(segs))

SegmentLists ==
    {<<seg>> : seg \in SingleSegments}
        \cup UNION {[1..n -> FewSegments] : n \in 1..MaxSegs}

ParserInit ==
    /\ phase = "setup"
    /\ is_mac \in BOOLEAN
    /\ os_rejects = {}
    /\ dup_rejects = FALSE
    /\ shortcuts = DefaultShortcuts
    /\ lock = "free"
    /\ hotkeys = {}
    /\ ncalls = 0
    /\ pc = [t \in Threads |-> "idle"]
    /\ id = [t \in Threads |-> 0]
    /\ todo = [t \in Threads |-> {}]
    /\ registered = [t \in Threads |-> 0]
    /\ failed = [t \in Threads |-> 0]
    /\ outcome = [t \in Threads |-> NoOutcome]
    /\ alone = [t \in Threads |-> TRUE]
    /\ returned = NoCall
    /\ last_sync = None
    /\ segments \in SegmentLists
    /\ verbose = TextOf(segments)
    /\ combo = NotParsed
    /\ reparsed = NotParsed
    /\ before = <<>>
    /\ NoCacheRun

program == <<phase, env, shortcuts, lock, hotkeys, ncalls, pc, id, locals,
             returned, last_sync>>

\* parse_shortcut(verbose, is_mac)
ParseText ==
    /\ combo = NotParsed
    /\ combo' = parse_shortcut(verbose, is_mac)
    /\ UNCHANGED <<program, store_run, cache_run, segments, verbose, reparsed>>

\* parse_shortcut(&parsed, is_mac), on the combo of the first call
ParseCombo ==
    /\ combo.tag = "Some"
    /\ reparsed = NotParsed
    /\ reparsed' = parse_shortcut(combo.val, is_mac)
    /\ UNCHANGED <<program, store_run, cache_run, segments, verbose, combo>>

ParserNext == ParseText \/ ParseCombo

ParserSpec == ParserInit /\ [][ParserNext]_vars

(***************************************************************************)
(* update_shortcut_command and reset_shortcut_command on their own: one    *)
(* caller, any platform string, starting from either catalog.              *)
(***************************************************************************)
\* the platform strings a caller may pass: update_shortcut_command takes a
\* String and the frontend is free to send anything
AnyPlatform == PlatformArgs \cup {"linux", "Mac", ""}

StoreInit ==
    /\ phase = "running"
    /\ is_mac \in BOOLEAN
    /\ os_rejects = {}
    /\ dup_rejects = FALSE
    /\ shortcuts \in {DefaultShortcuts, UnboundShortcuts}
    /\ lock = "free"
    /\ hotkeys = {}
    /\ ncalls = 0
    /\ pc = [t \in Threads |-> "idle"]
    /\ id = [t \in Threads |-> 0]
    /\ todo = [t \in Threads |-> {}]
    /\ registered = [t \in Threads |-> 0]
    /\ failed = [t \in Threads |-> 0]
    /\ outcome = [t \in Threads |-> NoOutcome]
    /\ alone = [t \in Threads |-> TRUE]
    /\ returned = NoCall
    /\ last_sync = None
    /\ segments = <<>>
    /\ verbose = <<>>
    /\ combo = NotParsed
    /\ reparsed = NotParsed
    /\ before = shortcuts
    /\ NoCacheRun

\* what a store command leaves alone
store_frame == <<phase, env, parser, cache_run, lock, hotkeys, ncalls, pc, id,
                 locals, last_sync>>

\* update_shortcut_command(command_key, shortcut, platform), lock to return
StoreUpdate ==
    /\ lock = "free"
    /\ \E command_key \in CommandKeys, platform \in AnyPlatform,
          shortcut \in ShortcutArgs :
        /\ shortcuts' = update_shortcuts(shortcuts, command_key, shortcut, platform)
        /\ returned' = [Call("update", "t1", update_result(shortcuts, command_key))
                          EXCEPT !.command_key = command_key,
                                 !.platform = platform,
                                 !.shortcut = shortcut]
    /\ before' = shortcuts
    /\ UNCHANGED store_frame

\* reset_shortcut_command(command_key), lock to return
StoreReset ==
    /\ lock = "free"
    /\ \E command_key \in CommandKeys :
        /\ shortcuts' = reset_shortcuts(shortcuts, command_key)
        /\ returned' = [Call("reset", "t1", reset_result(shortcuts, command_key))
                          EXCEPT !.command_key = command_key]
    /\ before' = shortcuts
    /\ UNCHANGED store_frame

StoreNext == StoreUpdate \/ StoreReset

StoreSpec == StoreInit /\ [][StoreNext]_vars

(***************************************************************************)
(* The settings cache: get_settings_command, save_settings_command and     *)
(* reset_settings_command over settings.json and the managed               *)
(* Mutex<Option<WhisperSettings>>, called from two threads.                *)
(***************************************************************************)
\* the settings a caller may save
SettingsArgs ==
    { default_settings,
      WhisperSettings(update_shortcuts(DefaultShortcuts, AllKeys[1],
                                       <<GlyphCmd,"+",GlyphUp>>, "mac")) }

\* serde_json::to_string_pretty
to_string_pretty(value) == [json |-> value]

\* serde_json::from_str
from_str(contents) == contents.json

\* load_settings: the default when there is no file, else the file parsed
load_settings(file) ==
    IF file.tag = "None" THEN default_settings ELSE from_str(file.val)

\* Result<WhisperSettings, String>
OkSettings(v) == [tag |-> "Ok", type |-> "WhisperSettings", val |-> v]

SettingsInit ==
    /\ phase = "running"
    /\ is_mac \in BOOLEAN
    /\ os_rejects = {}
    /\ dup_rejects = FALSE
    /\ shortcuts = DefaultShortcuts
    /\ lock = "free"
    /\ hotkeys = {}
    /\ ncalls = 0
    /\ pc = [t \in Threads |-> "idle"]
    /\ id = [t \in Threads |-> 0]
    /\ todo = [t \in Threads |-> {}]
    /\ registered = [t \in Threads |-> 0]
    /\ failed = [t \in Threads |-> 0]
    /\ outcome = [t \in Threads |-> NoOutcome]
    /\ alone = [t \in Threads |-> TRUE]
    /\ returned = NoCall
    /\ last_sync = None
    /\ segments = <<>>
    /\ verbose = <<>>
    /\ combo = NotParsed
    /\ reparsed = NotParsed
    /\ before = <<>>
    /\ NoCacheRun

\* what a settings command leaves alone
cache_frame == <<phase, env, parser, store_run, shortcuts, lock, hotkeys, pc,
                 id, locals, last_sync>>

\* the frontend invokes a settings command on a thread of the pool
InvokeSettings(t, at, value) ==
    /\ cmd[t] = "idle"
    /\ ncalls < MaxCalls
    /\ ncalls' = ncalls + 1
    /\ cmd' = [cmd EXCEPT ![t] = at]
    /\ settings' = [settings EXCEPT ![t] = Some(value)]
    /\ UNCHANGED <<cache_frame, settings_file, state, write_failed, returned>>

\* save_settings: settings.json holds the serialized settings
write_file(file, value) == Some(to_string_pretty(value))

\* *settings_lock = Some(settings)
store_value(file, value) == Some(value)

\* get_settings_command: the cached settings, or the file's, under the guard
GetSettings(t) ==
    /\ cmd[t] = "idle"
    /\ ncalls < MaxCalls
    /\ lock = "free"
    /\ ncalls' = ncalls + 1
    /\ state' = IF state.tag = "Some" THEN state
                ELSE Some(load_settings(settings_file))
    /\ returned' = Call("get", t, OkSettings(state'.val))
    /\ UNCHANGED <<cache_frame, settings_file, cmd, settings, write_failed>>

InvokeSave(t) == \E value \in SettingsArgs : InvokeSettings(t, "save_disk", value)

InvokeResetSettings(t) == InvokeSettings(t, "reset_disk", default_settings)

\* save_settings(&app_handle, &settings)?, before the Mutex is taken
WriteDisk(t) ==
    /\ cmd[t] \in {"save_disk", "reset_disk"}
    /\ \E io_ok \in BOOLEAN :
        IF io_ok
        THEN /\ settings_file' = write_file(settings_file, settings[t].val)
             /\ cmd' = [cmd EXCEPT ![t] = IF cmd[t] = "save_disk"
                                          THEN "save_state" ELSE "reset_state"]
             /\ UNCHANGED <<write_failed, returned>>
        ELSE /\ write_failed' = TRUE
             /\ cmd' = [cmd EXCEPT ![t] = "idle"]
             /\ returned' = Call(IF cmd[t] = "save_disk" THEN "save" ELSE "reset_settings",
                                 t, Err("Failed to write settings file"))
             /\ UNCHANGED settings_file
    /\ settings' = [settings EXCEPT ![t] = IF cmd'[t] = "idle" THEN None ELSE @]
    /\ UNCHANGED <<cache_frame, ncalls, state>>

\* state.lock().unwrap(), the assignment and the return
StoreState(t) ==
    /\ cmd[t] \in {"save_state", "reset_state"}
    /\ lock = "free"
    /\ state' = store_value(settings_file, settings[t].val)
    /\ returned' = IF cmd[t] = "save_state"
                   THEN Call("save", t, Ok(TRUE))
                   ELSE Call("reset_settings", t, OkSettings(settings[t].val))
    /\ cmd' = [cmd EXCEPT ![t] = "idle"]
    /\ settings' = [settings EXCEPT ![t] = None]
    /\ UNCHANGED <<cache_frame, ncalls, settings_file, write_failed>>

SettingsNext ==
    \/ \E t \in Threads : GetSettings(t)
    \/ \E t \in Threads : InvokeSave(t)
    \/ \E t \in Threads : InvokeResetSettings(t)
    \/ \E t \in Threads : WriteDisk(t)
    \/ \E t \in Threads : StoreState(t)

SettingsSpec == SettingsInit /\ [][SettingsNext]_vars

(***************************************************************************)
(* Properties.                                                             *)
(***************************************************************************)
\* the for loop of thread t has visited every entry and is about to return
LoopOver(t) == pc[t] = "sync_loop" /\ todo[t] = {}

\* the step in which thread t returns from command op to its caller
Returns(t, op) ==
    /\ pc[t] # "idle"
    /\ pc'[t] = "idle"
    /\ returned'.op = op
    /\ returned'.thread = t

\* the entries for which the loop makes a register call
Bound == {k \in DOMAIN shortcuts : parsed_of(shortcuts[k], is_mac).tag = "Some"}

ComboOf(k) == parsed_of(shortcuts[k], is_mac).val

\* C1: an OS rejection never stops the loop of register_shortcuts_command:
\* when the loop is over, a register call has been made for every action
\* with a non-empty parsed binding, a failed call is one the OS had a reason
\* to reject (the combo is held elsewhere, or this sync already registered
\* it for another action), and every combo the OS accepts is active unless
\* another command unregistered it meanwhile.
C1_LoopSurvivesRejection ==
    \A t \in Threads : LoopOver(t) =>
        \A k \in Bound :
            /\ outcome[t][k] \in {"ok", "err"}
            /\ outcome[t][k] = "err" =>
                  \/ ComboOf(k) \in os_rejects
                  \/ /\ dup_rejects
                     /\ \E j \in Bound \ {k} :
                            ComboOf(j) = ComboOf(k) /\ outcome[t][j] = "ok"
            /\ (alone[t] /\ ComboOf(k) \notin os_rejects) =>
                  ComboOf(k) \in Combos(hotkeys)

\* C1 witness: a finished loop in which one register call failed and another
\* action was registered all the same
C1_Witness ==
    \E t \in Threads : \E k, j \in Bound :
        /\ LoopOver(t)
        /\ outcome[t][k] = "err"
        /\ outcome[t][j] = "ok"
        /\ ComboOf(j) \in Combos(hotkeys)

C3_OnlyOwnRegistrations ==
    \A t \in Threads : pc[t] = "sync_loop" =>
        \A r \in hotkeys : r.by = id[t]

\* C3 witness: a later sync about to return with hotkeys active, after an
\* earlier sync had left hotkeys of its own
C3_Witness ==
    \E t \in Threads :
        /\ LoopOver(t)
        /\ hotkeys # {}
        /\ id[t] > 1
        /\ last_sync.tag = "Some"
        /\ last_sync.val.combos # {}

\* C4: when a sync returns and no other command touched the OS meanwhile,
\* the active hotkeys are exactly the parsed bindings of the catalog that the
\* OS accepts, each held by an action of the catalog bound to it.
C4_ActiveMatchesCatalog ==
    \A t \in Threads : (LoopOver(t) /\ alone[t]) =>
        /\ Combos(hotkeys) = {ComboOf(k) : k \in Bound} \ os_rejects
        /\ \A r \in hotkeys : r.owner \in Bound /\ ComboOf(r.owner) = r.combo

\* C4 witness: such a return with an override in the catalog, a rejected
\* combo and an accepted one
C4_Witness ==
    \E t \in Threads :
        /\ LoopOver(t)
        /\ alone[t]
        /\ hotkeys # {}
        /\ \E k \in Bound : ComboOf(k) \in os_rejects
        /\ \E k \in Bound : shortcuts[k].custom_shortcut.tag = "Some"

\* C5: a sync that follows another over the same catalog ends with the same
\* registered count, the same failed count and the same active combos.
C5_RepeatedSyncAgrees ==
    \A t \in Threads :
        (/\ LoopOver(t)
         /\ alone[t]
         /\ last_sync.tag = "Some"
         /\ last_sync.val.alone
         /\ last_sync.val.unchanged) =>
            /\ registered[t] = last_sync.val.registered
            /\ failed[t] = last_sync.val.failed
            /\ Combos(hotkeys) = last_sync.val.combos

\* C5 witness: the second of two such syncs, with a success and a failure
C5_Witness ==
    \E t \in Threads :
        /\ LoopOver(t)
        /\ alone[t]
        /\ last_sync.tag = "Some"
        /\ last_sync.val.alone
        /\ last_sync.val.unchanged
        /\ registered[t] > 0
        /\ failed[t] > 0

\* the platform an update_shortcut_command argument selects, and the other
FieldOf(platform) == IF platform = "mac" THEN "mac" ELSE "windows"

OtherField(platform) == IF platform = "mac" THEN "windows" ELSE "mac"

\* C6: a successful update_shortcut(id, P, text) with non-empty text makes
\* text the binding resolved for id on platform P and leaves the binding
\* resolved on the other platform as it was.
C6_UpdateSetsOnePlatform ==
    [][ \A t \in Threads :
          (/\ Returns(t, "update")
           /\ returned'.ret.tag = "Ok"
           /\ returned'.shortcut # <<>>) =>
             LET k == returned'.command_key
                 p == returned'.platform
             IN  /\ shortcut_str(shortcuts'[k], FieldOf(p)) = returned'.shortcut
                 /\ shortcut_str(shortcuts'[k], OtherField(p))
                       = shortcut_str(shortcuts[k], OtherField(p))
      ]_vars

\* C6 witness: an update with non-empty text of an action that keeps an
\* override on the other platform
C6_Witness ==
    /\ returned.op = "update"
    /\ returned.ret.tag = "Ok"
    /\ returned.shortcut # <<>>
    /\ returned.command_key \in DOMAIN shortcuts
    /\ LET c == shortcuts[returned.command_key].custom_shortcut IN
          /\ c.tag = "Some"
          /\ c.val[OtherField(returned.platform)].tag = "Some"
          /\ c.val[FieldOf(returned.platform)] = Some(returned.shortcut)

\* C7 as stated: an action whose override for the current platform is the
\* empty string and whose default is not has its default registered by sync.
C7_EmptyOverrideFallsBack ==
    \A t \in Threads : LoopOver(t) =>
        \A k \in DOMAIN shortcuts :
            LET e == shortcuts[k]
                p == platform_of(is_mac)
            IN  (/\ e.custom_shortcut.tag = "Some"
                 /\ e.custom_shortcut.val[p] = Some(<<>>)
                 /\ parse_shortcut(e.default_shortcut[p], is_mac).tag = "Some") =>
                    /\ shortcut_str(e, p) = e.default_shortcut[p]
                    /\ outcome[t][k] \in {"ok", "err"}

\* C8: the loop skips an action whose binding is empty or parses to nothing:
\* the step that visits it makes no register call and moves neither counter.
C8_UnboundIsSkipped ==
    [][ \A t \in Threads : \A k \in DOMAIN shortcuts :
          (/\ pc[t] = "sync_loop"
           /\ k \in todo[t]
           /\ k \notin todo'[t]
           /\ \/ shortcut_str(shortcuts[k], platform_of(is_mac)) = <<>>
              \/ parse_shortcut(shortcut_str(shortcuts[k], platform_of(is_mac)),
                                is_mac).tag = "None") =>
             /\ hotkeys' = hotkeys
             /\ registered' = registered
             /\ failed' = failed
             /\ outcome'[t][k] = "skipped"
      ]_vars

\* C8 witness: a finished loop that skipped an action with no binding on
\* either side and one whose binding is only separators
C8_Witness ==
    \E t \in Threads : \E k, j \in DOMAIN shortcuts :
        /\ LoopOver(t)
        /\ outcome[t][k] = "skipped"
        /\ shortcut_str(shortcuts[k], platform_of(is_mac)) = <<>>
        /\ outcome[t][j] = "skipped"
        /\ shortcut_str(shortcuts[j], platform_of(is_mac)) # <<>>

\* C9: update_shortcut and reset_shortcut of an id the store does not hold
\* return an error and change neither the store nor the OS registrations.
C9_NotFoundChangesNothing ==
    [][ \A t \in Threads :
          (/\ Returns(t, "update") \/ Returns(t, "reset")
           /\ returned'.command_key \notin DOMAIN shortcuts) =>
             /\ returned'.ret = Err("not found")
             /\ shortcuts' = shortcuts
             /\ hotkeys' = hotkeys
      ]_vars

\* C9 witness: a reset of an unknown id has failed while hotkeys are active
\* and the store holds an override
C9_Witness ==
    /\ returned.op = "reset"
    /\ returned.command_key \notin DOMAIN shortcuts
    /\ returned.ret.tag = "Err"
    /\ hotkeys # {}
    /\ \E k \in DOMAIN shortcuts : shortcuts[k].custom_shortcut.tag = "Some"

\* C10: update_shortcut applied a second time with the same arguments leaves
\* the store as the first application left it, and reset_shortcut of an
\* action with no override succeeds and leaves the store as it was.
C10_Idempotent ==
    [][ \A t \in Threads :
          /\ Returns(t, "update") =>
                /\ update_shortcuts(shortcuts', returned'.command_key,
                                    returned'.shortcut, returned'.platform)
                      = shortcuts'
                /\ update_result(shortcuts', returned'.command_key)
                      = returned'.ret
          /\ (/\ Returns(t, "reset")
              /\ returned'.command_key \in DOMAIN shortcuts
              /\ shortcuts[returned'.command_key].custom_shortcut = None) =>
                /\ returned'.ret = Ok(TRUE)
                /\ shortcuts' = shortcuts
      ]_vars

\* C10 witness: the first command of a run, a reset of an action that has no
\* override, has returned Ok(true)
C10_Witness ==
    /\ ncalls = 1
    /\ returned.op = "reset"
    /\ returned.command_key \in DOMAIN shortcuts
    /\ returned.ret = Ok(TRUE)

(***************************************************************************)
(* Properties of parse_shortcut, under ParserSpec.                         *)
(***************************************************************************)
\* the synonym table of the parser contract: words, and the canonical token
\* on macOS and elsewhere
SynonymTable ==
    { [words |-> {<<"c","m","d">>, <<"c","o","m","m","a","n","d">>, <<GlyphCmd>>},
       mac |-> <<"C","m","d">>, other |-> <<"C","t","r","l">>],
      [words |-> {<<"c","t","r","l">>, <<"c","o","n","t","r","o","l">>},
       mac |-> <<"C","t","r","l">>, other |-> <<"C","t","r","l">>],
      [words |-> {<<"s","h","i","f","t">>},
       mac |-> <<"S","h","i","f","t">>, other |-> <<"S","h","i","f","t">>],
      [words |-> {<<"a","l","t">>, <<"o","p","t","i","o","n">>, <<GlyphOpt>>},
       mac |-> <<"A","l","t">>, other |-> <<"A","l","t">>],
      [words |-> {<<"u","p">>, <<GlyphUp>>},
       mac |-> <<"U","p">>, other |-> <<"U","p">>],
      [words |-> {<<"d","o","w","n">>, <<GlyphDown>>},
       mac |-> <<"D","o","w","n">>, other |-> <<"D","o","w","n">>],
      [words |-> {<<"l","e","f","t">>, <<GlyphLeft>>},
       mac |-> <<"L","e","f","t">>, other |-> <<"L","e","f","t">>],
      [words |-> {<<"r","i","g","h","t">>, <<GlyphRight>>},
       mac |-> <<"R","i","g","h","t">>, other |-> <<"R","i","g","h","t">>],
      [words |-> {<<"e","n","t","e","r">>, <<"r","e","t","u","r","n">>,
                  <<GlyphEnter>>},
       mac |-> <<"E","n","t","e","r">>, other |-> <<"E","n","t","e","r">>],
      [words |-> {<<"e","s","c">>, <<"e","s","c","a","p","e">>},
       mac |-> <<"E","s","c","a","p","e">>, other |-> <<"E","s","c","a","p","e">>],
      [words |-> {<<"s","p","a","c","e">>},
       mac |-> <<"S","p","a","c","e">>, other |-> <<"S","p","a","c","e">>],
      [words |-> {<<"t","a","b">>},
       mac |-> <<"T","a","b">>, other |-> <<"T","a","b">>] }

\* seg is word in some mix of upper and lower case
IsCaseVariant(seg, word) ==
    /\ Len(seg) = Len(word)
    /\ \A i \in 1..Len(word) : seg[i] \in {word[i], UpperChar(word[i])}

\* the rows of the table that seg is a synonym of
RowsOf(seg) ==
    {row \in SynonymTable : \E word \in row.words : IsCaseVariant(seg, word)}

IsSynonym(seg) == RowsOf(seg) # {}

\* the segments of the text without their padding, blank ones dropped
IsInk(ch) == ch \notin {" ", "\t"}

HasInk(seg) == seg # <<>>

Stripped(seg) == SelectSeq(seg, IsInk)

NonBlank(segs) == SelectSeq([i \in 1..Len(segs) |-> Stripped(segs[i])], HasInk)

\* the literal key of a segment that is no synonym
LiteralForm(seg) ==
    IF Len(seg) = 1 THEN <<UpperChar(seg[1])>>
    ELSE <<UpperChar(seg[1])>> \o SubSeq(seg, 2, Len(seg))

\* the canonical token of a segment on a platform
Canonical(seg, mac) ==
    LET rows == RowsOf(seg) IN
    IF rows # {}
    THEN LET row == CHOOSE r \in rows : TRUE IN
         IF mac THEN row.mac ELSE row.other
    ELSE LiteralForm(seg)

CanonicalAll(segs, mac) ==
    LET inked == NonBlank(segs) IN
    [i \in 1..Len(inked) |-> Canonical(inked[i], mac)]

\* C11: a text that is one synonym, in any letter case, parses to the token
\* of its row: the meta synonyms to Cmd on macOS and Ctrl elsewhere, every
\* other synonym to one token on both platforms
C11_SynonymsAnyCase ==
    (combo # NotParsed /\ Len(segments) = 1) =>
        \A row \in SynonymTable :
            /\ (row.mac # row.other) <=> (<<"c","m","d">> \in row.words)
            /\ \A word \in row.words :
                 IsCaseVariant(segments[1], word) =>
                     combo = Some(IF is_mac THEN row.mac ELSE row.other)

\* C11 witness: "cOmMaNd" has been parsed to Ctrl off macOS
C11_Witness ==
    /\ ~is_mac
    /\ segments = << <<"c","O","m","M","a","N","d">> >>
    /\ combo = Some(<<"C","t","r","l">>)

\* the text has nothing but separators and whitespace
OnlySeparators(text) == \A i \in 1..Len(text) : text[i] \in {"+", " ", "\t"}

\* C12: the parser returns None exactly for the texts made of separators and
\* whitespace (the empty text among them), and a non-empty combo for every
\* other text; it returns nothing but None or Some
C12_NoneOnlyForBlank ==
    (combo # NotParsed) =>
        /\ combo.tag \in {"None", "Some"}
        /\ OnlySeparators(verbose) <=> (combo = None)
        /\ ~OnlySeparators(verbose) => (combo.tag = "Some" /\ combo.val # <<>>)

\* C12 witness: " + " has been parsed to None
C12_Witness ==
    /\ verbose = <<" ", "+", " ">>
    /\ combo = None

\* the number of '+' in a text
RECURSIVE PlusCount(_)
PlusCount(text) ==
    IF text = <<>> THEN 0
    ELSE (IF Head(text) = "+" THEN 1 ELSE 0) + PlusCount(Tail(text))

\* every segment of the text is blank or a synonym
MadeOfSynonyms(segs) ==
    \A i \in 1..Len(segs) : Stripped(segs[i]) = <<>> \/ IsSynonym(Stripped(segs[i]))

\* C13: for a text made of synonyms the combo has one token for each
\* segment that is not blank, and parsing the combo again on the same
\* platform yields the same combo
C13_RoundTrip ==
    (MadeOfSynonyms(segments) /\ combo # NotParsed) =>
        IF NonBlank(segments) = <<>> THEN combo = None
        ELSE /\ combo.tag = "Some"
             /\ PlusCount(combo.val) + 1 = Len(NonBlank(segments))
             /\ reparsed # NotParsed => reparsed = combo

\* C13 witness: "cmd+ Shift +<up>" gave Ctrl+Shift+Up, and so did the combo
C13_Witness ==
    /\ ~is_mac
    /\ segments = << <<"c","m","d">>, <<" ","S","h","i","f","t"," ">>, <<GlyphUp>> >>
    /\ combo = Some(<<"C","t","r","l","+","S","h","i","f","t","+","U","p">>)
    /\ reparsed = combo

\* the segments in another order
Reordered(segs, perm) == [i \in 1..Len(segs) |-> segs[perm[i]]]

\* C14 as written: the tokens are the canonical forms of the segments in
\* their order, and a text with the same segments in another order always
\* yields another combo
C14_ReorderedAlwaysDiffer ==
    (combo # NotParsed /\ NonBlank(segments) # <<>>) =>
        /\ combo = Some(TextOf(CanonicalAll(segments, is_mac)))
        /\ \A perm \in Permutations(1..Len(segments)) :
             NonBlank(Reordered(segments, perm)) # NonBlank(segments) =>
                 parse_shortcut(TextOf(Reordered(segments, perm)), is_mac) # combo

\* C14: the tokens are the canonical forms of the segments in their order,
\* and a text with the same segments in another order yields the same combo
\* only if the canonical tokens are the same position by position
C14_OrderPreserved ==
    (combo # NotParsed /\ reparsed = NotParsed /\ NonBlank(segments) # <<>>) =>
        LET tokens == CanonicalAll(segments, is_mac) IN
        /\ combo = Some(TextOf(tokens))
        /\ \A perm \in Permutations(1..Len(segments)) :
             (parse_shortcut(TextOf(Reordered(segments, perm)), is_mac) = combo)
                 <=> (CanonicalAll(Reordered(segments, perm), is_mac) = tokens)

\* C14 witness: " Shift +CTRL+cmd" has been parsed to Shift+Ctrl+Cmd
C14_Witness ==
    /\ is_mac
    /\ segments = << <<" ","S","h","i","f","t"," ">>, <<"C","T","R","L">>,
                     <<"c","m","d">> >>
    /\ combo = Some(<<"S","h","i","f","t","+","C","t","r","l","+","C","m","d">>)

\* C15: a segment that is no synonym becomes a literal key: its upper-case
\* form if it is one character, else its first character upper-cased and
\* the rest as written
C15_LiteralKeys ==
    (combo # NotParsed /\ NonBlank(segments) # <<>>) =>
        /\ combo.tag = "Some"
        /\ LET inked == NonBlank(segments)
               tokens == split(combo.val, <<>>)
           IN  /\ Len(tokens) = Len(inked)
               /\ \A i \in 1..Len(inked) :
                    ~IsSynonym(inked[i]) =>
                        tokens[i] =
                            IF Len(inked[i]) = 1 THEN to_uppercase(inked[i])
                            ELSE <<UpperChar(Head(inked[i]))>> \o Tail(inked[i])

\* C15 witness: the two-byte letter and "fOo" have become literal keys
C15_Witness ==
    /\ segments = << <<"U00E9">>, <<"f","O","o">> >>
    /\ combo = Some(<<"U00C9", "+", "F","O","o">>)

(***************************************************************************)
(* Properties of the commands running side by side, under Spec.            *)
(***************************************************************************)
\* thread t is at a call of the OS facility inside register_shortcuts_command
AtOsCall(t) == pc[t] = "sync_unreg" \/ (pc[t] = "sync_loop" /\ todo[t] # {})

\* C16 as written: while a sync is calling unregister_all or register, the
\* settings lock is free
C16_LockFreeDuringOsCalls == \A t \in Threads : AtOsCall(t) => lock = "free"

\* C17: the unregister/register phases of two sync calls never overlap: while
\* one call holds the settings guard for its unregister_all and its loop, no
\* other sync is at its unregister_all or in its loop
C17_SyncsDoNotInterleave ==
    \A t, u \in Threads :
        (t # u /\ pc[t] \in {"sync_unreg", "sync_loop"}) =>
            /\ lock = t
            /\ pc[u] \notin {"sync_unreg", "sync_loop"}

\* C17 witness: one sync is in its loop with a hotkey of its own registered,
\* a second sync call is waiting for the guard
C17_Witness ==
    /\ pc["t1"] = "sync_loop"
    /\ todo["t1"] # {}
    /\ \E r \in hotkeys : r.by = id["t1"]
    /\ pc["t2"] = "sync_lock"

\* the accelerators a sync on its own leaves active
FullSet == {ComboOf(k) : k \in Bound} \ os_rejects

\* C18 as written: once a sync and an unregister command that ran side by
\* side have both returned, the active accelerators are none or all of those
\* the sync registers on its own
C18_NoPartialActive ==
    (/\ ncalls = 2
     /\ \A t \in Threads : pc[t] = "idle"
     /\ last_sync.tag = "Some"
     /\ returned.op = "unregister" \/ ~last_sync.val.alone) =>
        Combos(hotkeys) \in {{}, FullSet}

\* C19 as written: every registration live in the OS was made by a sync call
C19_OnlySyncRegisters == \A r \in hotkeys : r.by # 0

\* a step of a command or of main's setup
CommandStep ==
    \/ phase' # phase
    \/ \E t \in Threads : pc'[t] # pc[t] \/ todo'[t] # todo[t]

\* C20: the closure of a hotkey registered by a sync takes no lock, starts no
\* command and changes neither the catalog nor the registrations; every step
\* that does one of these is a step of a command
C20_CallbackChangesNothing ==
    [][/\ (\E r \in hotkeys : r.by # 0 /\ on_trigger(r.owner)) =>
             UNCHANGED <<lock, shortcuts, hotkeys, pc, ncalls>>
       /\ (lock' # lock \/ shortcuts' # shortcuts \/ hotkeys' # hotkeys
             \/ ncalls' # ncalls) => CommandStep]_vars

\* C20 witness: a hotkey registered by a sync is live, and its closure can
\* run, while that sync holds the settings guard in the middle of its loop
C20_Witness ==
    \E t \in Threads :
        /\ pc[t] = "sync_loop"
        /\ lock = t
        /\ todo[t] # {}
        /\ \E r \in hotkeys : r.by = id[t]
        /\ ENABLED Trigger


(***************************************************************************)
(* Properties of the error path, the store and the OS calls.               *)
(***************************************************************************)
\* C21: a sync whose unregister_all() call fails returns an error to its
\* caller straight from that call: it never enters the loop, so it makes no
\* register call, it changes no catalog entry, and the hotkeys that were
\* active before the call are still active
C21_UnregisterFailureAborts ==
    [][\A t \in Threads :
          (Returns(t, "register") /\ returned'.ret.tag = "Err")
              => /\ pc[t] = "sync_unreg"
                 /\ returned'.ret = Err("Failed to unregister shortcuts")
                 /\ hotkeys' = hotkeys
                 /\ shortcuts' = shortcuts
                 /\ UNCHANGED locals]_vars

\* a second sync has failed at unregister_all() and the hotkeys of the
\* first are still active
C21_Witness ==
    /\ returned.op = "register"
    /\ returned.ret.tag = "Err"
    /\ \E r \in hotkeys : r.by # 0


\* C23: whatever commands have run, the catalog holds exactly the action
\* ids it was built with, one entry for each, and each entry still carries
\* its own id: no command adds, removes or renames an entry
C23_CatalogKeysFixed ==
    /\ DOMAIN shortcuts = Keys
    /\ \A k \in Keys : shortcuts[k].key = k

\* an update has written an override, and a later update for an id the
\* catalog does not hold has returned
C23_Witness ==
    /\ returned.op = "update"
    /\ returned.command_key \notin Keys
    /\ returned.ret.tag = "Err"
    /\ \E k \in Keys : shortcuts[k].custom_shortcut.tag = "Some"


\* a step of thread t inside register_shortcuts_command
SyncStep(t) ==
    /\ pc[t] \in {"sync_lock", "sync_unreg", "sync_loop"}
    /\ pc'[t] # pc[t] \/ todo'[t] # todo[t]

\* C25: unregister_shortcuts_command registers nothing and leaves the
\* catalog as it was, and when it returns success no hotkey is active;
\* no step of register_shortcuts_command changes the catalog either
C25_UnregisterClearsOsOnly ==
    [][\A t \in Threads :
          /\ pc[t] = "unreg_call" /\ pc'[t] = "idle"
                => /\ hotkeys' \subseteq hotkeys
                   /\ shortcuts' = shortcuts
                   /\ returned'.ret = Ok(TRUE) => hotkeys' = {}
          /\ SyncStep(t) => shortcuts' = shortcuts]_vars

\* a sync had registered hotkeys, and an unregister that ran after it has
\* returned success with none left
C25_Witness ==
    /\ returned.op = "unregister"
    /\ returned.ret = Ok(TRUE)
    /\ last_sync.tag = "Some"
    /\ last_sync.val.combos # {}
    /\ hotkeys = {}


\* C26: update_shortcut_command and reset_shortcut_command make no OS call:
\* the registrations are the same before and after them, so a changed
\* override does not reach the OS before the next sync
C26_StoreWritesLeaveOsAlone ==
    [][\A t \in Threads :
          (Returns(t, "update") \/ Returns(t, "reset"))
              => hotkeys' = hotkeys]_vars

\* an override was written after the last sync: the hotkeys are still those
\* of that sync, and one of them no longer is its action's binding
C26_Witness ==
    /\ returned.op \in {"update", "reset"}
    /\ returned.ret = Ok(TRUE)
    /\ last_sync.tag = "Some"
    /\ ~last_sync.val.unchanged
    /\ Combos(hotkeys) = last_sync.val.combos
    /\ \E r \in hotkeys :
          /\ r.by # 0
          /\ r.owner = returned.command_key
          /\ parsed_of(shortcuts[r.owner], is_mac) # Some(r.combo)


\* the actions of the catalog bound to the combo c
Sharers(c) == {k \in Bound : ComboOf(k) = c}

\* the entry thread t visits in this step of its loop
Visits(t, k) == pc[t] = "sync_loop" /\ k \in todo[t] /\ k \notin todo'[t]

\* C29: with an OS that refuses a combo the process already holds, a sync
\* that ran undisturbed ends with every accepted combo registered once, for
\* exactly one of the actions bound to it, and every other action bound to
\* it counted as failed; the active combos and the two counts are functions
\* of the catalog alone, whatever order the loop took.  The holder is the
\* action the loop visited first: a visited action gets its combo exactly
\* when no action visited before it holds that combo
C29_DuplicateCombos ==
    /\ [](\A t \in Threads : (LoopOver(t) /\ alone[t] /\ dup_rejects) =>
            LET bound == {<<k, ComboOf(k)>> : k \in Bound}
                full == {b[2] : b \in bound} \ os_rejects
            IN  /\ \A c \in full :
                     LET sharers == {b[1] : b \in {x \in bound : x[2] = c}} IN
                     /\ Cardinality({k \in sharers : outcome[t][k] = "ok"}) = 1
                     /\ \A k \in sharers : outcome[t][k] \in {"ok", "err"}
                     /\ Cardinality({r \in hotkeys : r.combo = c}) = 1
                     /\ \A r \in hotkeys :
                           r.combo = c => /\ r.by = id[t]
                                          /\ r.owner \in sharers
                                          /\ outcome[t][r.owner] = "ok"
                /\ Combos(hotkeys) = full
                /\ registered[t] = Cardinality(full)
                /\ failed[t] = Cardinality(bound) - Cardinality(full))
    /\ [][\A t \in Threads : \A k \in Keys :
            (/\ Visits(t, k)
             /\ alone[t] /\ alone'[t]
             /\ dup_rejects
             /\ k \in Bound
             /\ ComboOf(k) \notin os_rejects) =>
                (outcome'[t][k] = "ok" <=> ComboOf(k) \notin Combos(hotkeys))]_vars

\* a sync over a catalog in which two actions share a combo is over: the
\* action named second in the catalog holds it, the first was refused
C29_Witness ==
    \E t \in Threads :
        /\ LoopOver(t)
        /\ alone[t]
        /\ dup_rejects
        /\ \E r \in hotkeys :
              /\ r.owner = AllKeys[2]
              /\ AllKeys[1] \in Sharers(r.combo)
              /\ outcome[t][AllKeys[1]] = "err"
              /\ failed[t] = Cardinality(Sharers(r.combo)) - 1


(***************************************************************************)
(* Properties of the store commands on their own (StoreSpec).              *)
(***************************************************************************)
\* the last command was a successful op on an entry of the catalog
Applied(op) ==
    /\ returned.op = op
    /\ returned.ret = Ok(TRUE)
    /\ returned.command_key \in DOMAIN before

\* the override of an entry, read the way update_shortcut_command reads it
CustomOf(shortcut_entry) ==
    unwrap_or(shortcut_entry.custom_shortcut, CustomShortcut(None, None))

\* C24: a successful update or reset of action A changes nothing but A's
\* custom binding: A's key, title, description, category and default
\* binding, and every field of every other action, are as before
C24_OnlyCustomOfTargetChanges ==
    (Applied("update") \/ Applied("reset")) =>
        /\ DOMAIN shortcuts = DOMAIN before
        /\ \A k \in DOMAIN before :
              IF k = returned.command_key
              THEN [shortcuts[k] EXCEPT !.custom_shortcut =
                                           before[k].custom_shortcut] = before[k]
              ELSE shortcuts[k] = before[k]

\* an update has changed the override of one action while another action
\* carries an override of its own
C24_Witness ==
    /\ Applied("update")
    /\ shortcuts[returned.command_key] # before[returned.command_key]
    /\ \E k \in DOMAIN before :
          /\ k # returned.command_key
          /\ before[k].custom_shortcut.tag = "Some"

\* C27: after a successful reset the action has no override, so the string
\* the sync resolves for it is its default binding on macOS and its default
\* binding on Windows, whatever overrides it had before
C27_ResetRestoresDefaults ==
    Applied("reset") =>
        LET e == shortcuts[returned.command_key]
            b == before[returned.command_key]
        IN  /\ e.custom_shortcut = None
            /\ e.default_shortcut = b.default_shortcut
            /\ shortcut_str(e, "mac") = b.default_shortcut.mac
            /\ shortcut_str(e, "windows") = b.default_shortcut.windows
            /\ \A m \in BOOLEAN :
                  parsed_of(e, m) = parsed_of([b EXCEPT !.custom_shortcut = None], m)

\* a reset of an action that had a non-empty override on both platforms
C27_Witness ==
    /\ Applied("reset")
    /\ LET b == before[returned.command_key] IN
          /\ b.custom_shortcut.tag = "Some"
          /\ b.custom_shortcut.val.mac.tag = "Some"
          /\ b.custom_shortcut.val.windows.tag = "Some"
          /\ b.custom_shortcut.val.mac.val # <<>>
          /\ b.custom_shortcut.val.windows.val # <<>>
    /\ shortcuts[returned.command_key].custom_shortcut = None

\* C28: update_shortcut_command writes the mac override exactly when the
\* platform argument is "mac"; for any other string it writes the windows
\* override and leaves the mac override as it was; no platform string makes
\* it fail
C28_PlatformMacOrElseWindows ==
    returned.op = "update" =>
        /\ returned.command_key \in DOMAIN before => returned.ret = Ok(TRUE)
        /\ Applied("update") =>
              LET c == shortcuts[returned.command_key].custom_shortcut
                  b == CustomOf(before[returned.command_key])
              IN  /\ c.tag = "Some"
                  /\ IF returned.platform = "mac"
                     THEN /\ c.val.mac = Some(returned.shortcut)
                          /\ c.val.windows = b.windows
                     ELSE /\ c.val.windows = Some(returned.shortcut)
                          /\ c.val.mac = b.mac

\* an update with a platform string that is neither "mac" nor "windows" has
\* written the windows override of an action and kept its mac override
C28_Witness ==
    /\ Applied("update")
    /\ returned.platform \in {"Mac", "linux", ""}
    /\ LET c == shortcuts[returned.command_key].custom_shortcut.val
           b == CustomOf(before[returned.command_key])
       IN  /\ b.mac.tag = "Some"
           /\ c.mac = b.mac
           /\ c.windows = Some(returned.shortcut)
           /\ c.windows # b.windows


(***************************************************************************)
(* Properties of the settings cache (SettingsSpec).                        *)
(***************************************************************************)
\* C30: once every save_settings_command and reset_settings_command call
\* has returned, none of them with an error, the settings in memory are the
\* settings last written to settings.json
C30_CacheEqualsDisk ==
    (/\ \A t \in Threads : cmd[t] = "idle"
     /\ ~write_failed
     /\ settings_file.tag = "Some") =>
        state = Some(from_str(settings_file.val))


(***************************************************************************)
(* Termination (FairSpec).                                                 *)
(***************************************************************************)
\* C22: every command that was invoked returns, whatever the other thread
\* and the callbacks do meanwhile, so no thread waits for the settings
\* Mutex forever; and each step of the loop of a sync takes one entry it
\* has not visited yet off the entries to visit, so the loop makes at most
\* one register call for each action
C22_CommandsReturn ==
    /\ \A t \in Threads : (pc[t] # "idle") ~> (pc[t] = "idle")
    /\ [][\A t \in Threads :
            (pc[t] = "sync_loop" /\ todo'[t] # todo[t]) =>
                \E k \in todo[t] : /\ todo'[t] = todo[t] \ {k}
                                   /\ outcome[t][k] = "pending"]_vars

\* every call the frontend made has returned, the last of them a sync that
\* ran while the other thread was calling the OS
C22_Witness ==
    /\ \A t \in Threads : pc[t] = "idle"
    /\ ncalls = MaxCalls
    /\ returned.op = "register"
    /\ returned.ret = Ok(TRUE)
    /\ last_sync.tag = "Some"
    /\ ~last_sync.val.alone

=============================================================================
